---- MODULE Spec2Model ----
(***************************************************************************)
(* Model of the document plausibility classifier of LandX                  *)
(* (src/app/utils/documentVerification.ts).                                *)
(*                                                                         *)
(* Numbers.  Scores and the confidence are kept in hundredths (0.9 is 90), *)
(* the weights in tenths (0.3 is 3), so the weighted sum is in             *)
(* thousandths.  A file size is kept in bytes; "fileSizeKB < 30" of the    *)
(* code is "size < 30 * 1024" (a division by 1024 is exact in a double).   *)
(* An aspect ratio width / height is kept as the pair of its operands and  *)
(* compared with a decimal literal by cross multiplication in units of     *)
(* 1/10000; height 0 gives NaN or Infinity, for which every bounded range  *)
(* test of the code is false.                                              *)
(***************************************************************************)
EXTENDS Integers, Sequences, FiniteSets, TLC

(***************************************************************************)
(* Bounds of the model.                                                    *)
(***************************************************************************)
MaxDimK == 4

\* images the user picks in the upload component in one behaviour
MaxPicks == 3

\* pixel widths and heights offered to the classifier
Dims == {0, 750, 1250, 2828} \cup {500 * k : k \in 1..MaxDimK}

\* file sizes in bytes: both sides of 30 KB, 50 KB, 100 KB and 5000 KB
Sizes == {0, 1, 30719, 30720, 51199, 51200, 102399, 102400, 614400,
          5120000, 5120001}

(***************************************************************************)
(* Document type identifiers of the application and their spelling; the    *)
(* classifier looks for substrings in them.                                *)
(***************************************************************************)
Chars ==
  [ titleDeed       |-> <<"t","i","t","l","e","D","e","e","d">>,
    encumbranceCert |-> <<"e","n","c","u","m","b","r","a","n","c","e","C","e","r","t">>,
    mutationCert    |-> <<"m","u","t","a","t","i","o","n","C","e","r","t">>,
    taxReceipts     |-> <<"t","a","x","R","e","c","e","i","p","t","s">>,
    landMap         |-> <<"l","a","n","d","M","a","p">>,
    landUseCert     |-> <<"l","a","n","d","U","s","e","C","e","r","t">>,
    idProof         |-> <<"i","d","P","r","o","o","f">>,
    photo           |-> <<"p","h","o","t","o">>,
    selfie          |-> <<"s","e","l","f","i","e">>,
    affidavit       |-> <<"a","f","f","i","d","a","v","i","t">>,
    poa             |-> <<"p","o","a">>,
    courtOrder      |-> <<"c","o","u","r","t","O","r","d","e","r">>,
    partitionDeed   |-> <<"p","a","r","t","i","t","i","o","n","D","e","e","d">>,
    noc             |-> <<"n","o","c">>,
    landPhoto       |-> <<"l","a","n","d","P","h","o","t","o">>,
    gpsTaggedSelfie |-> <<"g","p","s","T","a","g","g","e","d","S","e","l","f","i","e">>,
    landmarkPhotos  |-> <<"l","a","n","d","m","a","r","k","P","h","o","t","o","s">> ] @@
  ("document" :> <<"d","o","c","u","m","e","n","t">>)

DocTypes == DOMAIN Chars

\* String.prototype.includes: sub occurs in s as a contiguous run
SeqIncludes(s, sub) ==
  \E i \in 0..(Len(s) - Len(sub)) :
     \A j \in 1..Len(sub) : s[i + j] = sub[j]

Includes(type, sub) == SeqIncludes(Chars[type], sub)

HasDeed(type)    == Includes(type, <<"D","e","e","d">>)
HasCert(type)    == Includes(type, <<"C","e","r","t">>)
HasIdProof(type) == Includes(type, <<"i","d","P","r","o","o","f">>)
HasPhoto(type)   == Includes(type, <<"p","h","o","t","o">>)

(***************************************************************************)
(* Comparisons of the double width / height with a decimal literal k/10000.*)
(***************************************************************************)
RatioGE(w, h, k) == h > 0 /\ 10000 * w >= k * h
RatioLE(w, h, k) == h > 0 /\ 10000 * w <= k * h
RatioGT(w, h, k) == h > 0 /\ 10000 * w >  k * h
RatioLT(w, h, k) == h > 0 /\ 10000 * w <  k * h

Abs(n) == IF n < 0 THEN 0 - n ELSE n

(***************************************************************************)
(* Math.abs(actual - expected) <= bound in double arithmetic.  Away from   *)
(* the boundary the exact comparison decides.  When width / height is      *)
(* exactly expected + delta with |delta| = bound, the subtraction of the   *)
(* two doubles is inexact and these are the cases in which the computed    *)
(* difference comes out above the double of the bound.                     *)
(***************************************************************************)
RoundsAbove ==
  { <<7071, 1000>>, <<7071, 3000>>, <<7071, 5000>>,
    <<15860, 0 - 1000>>, <<15860, 0 - 3000>>,
    <<15000, 1000>>, <<15000, 0 - 1000>>, <<15000, 3000>>, <<15000, 0 - 3000>> }

DiffLE(w, h, expected, bound) ==
  LET n == 10000 * w - expected * h
  IN  /\ h > 0
      /\ \/ Abs(n) < bound * h
         \/ /\ Abs(n) = bound * h
            /\ <<expected, IF n < 0 THEN 0 - bound ELSE bound>> \notin RoundsAbove

(***************************************************************************)
(* variant: a distance above 1.0 scores 0                                  *)
(***************************************************************************)
calculateAspectRatioScoreFloorZero(w, h, expected) ==
  IF DiffLE(w, h, expected, 1000) THEN 90
  ELSE IF DiffLE(w, h, expected, 3000) THEN 70
  ELSE IF DiffLE(w, h, expected, 5000) THEN 50
  ELSE IF DiffLE(w, h, expected, 10000) THEN 30
  ELSE 0

(***************************************************************************)
(* calculateAspectRatioScore                                               *)
(***************************************************************************)
calculateAspectRatioScore(w, h, expected) ==
  IF DiffLE(w, h, expected, 1000) THEN 90
  ELSE IF DiffLE(w, h, expected, 3000) THEN 70
  ELSE IF DiffLE(w, h, expected, 5000) THEN 50
  ELSE IF DiffLE(w, h, expected, 10000) THEN 30
  ELSE 10

\* variant: the land photo cases are missing and fall to the default
aspectRatioScoreNoLandCase(type, w, h) ==
  IF type \in {"titleDeed", "encumbranceCert", "mutationCert", "landUseCert"}
    THEN calculateAspectRatioScore(w, h, 7071)
  ELSE IF type = "idProof"
    THEN calculateAspectRatioScore(w, h, 15860)
  ELSE IF type \in {"photo", "selfie"}
    THEN calculateAspectRatioScore(w, h, 15000)
  ELSE IF RatioGT(w, h, 5000) /\ RatioLT(w, h, 20000) THEN 70 ELSE 30

\* variant: the bounds of the default check are inclusive
aspectRatioScoreInclusiveDefault(type, w, h) ==
  IF type \in {"titleDeed", "encumbranceCert", "mutationCert", "landUseCert"}
    THEN calculateAspectRatioScore(w, h, 7071)
  ELSE IF type = "idProof"
    THEN calculateAspectRatioScore(w, h, 15860)
  ELSE IF type \in {"photo", "selfie"}
    THEN calculateAspectRatioScore(w, h, 15000)
  ELSE IF type \in {"landPhoto", "landmarkPhotos"}
    THEN 80
  ELSE IF RatioGE(w, h, 5000) /\ RatioLE(w, h, 20000) THEN 70 ELSE 30

\* variant: land photos are given the score 0.9
aspectRatioScoreLandNine(type, w, h) ==
  IF type \in {"titleDeed", "encumbranceCert", "mutationCert", "landUseCert"}
    THEN calculateAspectRatioScore(w, h, 7071)
  ELSE IF type = "idProof"
    THEN calculateAspectRatioScore(w, h, 15860)
  ELSE IF type \in {"photo", "selfie"}
    THEN calculateAspectRatioScore(w, h, 15000)
  ELSE IF type \in {"landPhoto", "landmarkPhotos"}
    THEN 90
  ELSE IF RatioGT(w, h, 5000) /\ RatioLT(w, h, 20000) THEN 70 ELSE 30

\* variant: photos and selfies are expected to be square
aspectRatioScorePhotoSquare(type, w, h) ==
  IF type \in {"titleDeed", "encumbranceCert", "mutationCert", "landUseCert"}
    THEN calculateAspectRatioScore(w, h, 7071)
  ELSE IF type = "idProof"
    THEN calculateAspectRatioScore(w, h, 15860)
  ELSE IF type \in {"photo", "selfie"}
    THEN calculateAspectRatioScore(w, h, 10000)
  ELSE IF type \in {"landPhoto", "landmarkPhotos"}
    THEN 80
  ELSE IF RatioGT(w, h, 5000) /\ RatioLT(w, h, 20000) THEN 70 ELSE 30

(***************************************************************************)
(* The switch on expectedDocumentType in verifyDocument.                   *)
(***************************************************************************)
aspectRatioScore(type, w, h) ==
  IF type \in {"titleDeed", "encumbranceCert", "mutationCert", "landUseCert"}
    THEN calculateAspectRatioScore(w, h, 7071)
  ELSE IF type = "idProof"
    THEN calculateAspectRatioScore(w, h, 15860)
  ELSE IF type \in {"photo", "selfie"}
    THEN calculateAspectRatioScore(w, h, 15000)
  ELSE IF type \in {"landPhoto", "landmarkPhotos"}
    THEN 80
  ELSE IF RatioGT(w, h, 5000) /\ RatioLT(w, h, 20000) THEN 70 ELSE 30

\* variant: the second test is an "if" instead of an "else if"
resolutionWarningsBoth(w, h) ==
  (IF 2 * (w * h) >= 1000000 /\ w * h < 1000000
     THEN <<"Image resolution is lower than recommended">> ELSE <<>>)
  \o (IF w * h < 1000000
        THEN <<"Image resolution is too low for reliable document verification">>
        ELSE <<>>)

\* variant: the pixel-count bounds are exclusive
resolutionScoreExclusive(w, h) ==
  IF w * h > 1000000 THEN 90
  ELSE IF 2 * (w * h) > 1000000 THEN 60
  ELSE 30

\* variant: the lowest band scores 0.6 as well
resolutionScoreLowSix(w, h) ==
  IF w * h >= 1000000 THEN 90
  ELSE IF 2 * (w * h) >= 1000000 THEN 60
  ELSE 60

\* the resolution score and the warnings it pushes
resolutionScore(w, h) ==
  IF w * h >= 1000000 THEN 90
  ELSE IF 2 * (w * h) >= 1000000 THEN 60
  ELSE 30

resolutionWarnings(w, h) ==
  IF w * h >= 1000000 THEN <<>>
  ELSE IF 2 * (w * h) >= 1000000
    THEN <<"Image resolution is lower than recommended">>
  ELSE <<"Image resolution is too low for reliable document verification">>

\* variant: the upper bound of the formal range is exclusive
classifyImageTypeExclusive(w, h, type) ==
  IF (HasDeed(type) \/ HasCert(type))
        /\ RatioGE(w, h, 6000) /\ RatioLT(w, h, 8000)
    THEN "formal_document"
  ELSE IF HasIdProof(type) /\ RatioGE(w, h, 14000) /\ RatioLE(w, h, 17000)
    THEN "id_card"
  ELSE IF HasPhoto(type)
        /\ \/ RatioGE(w, h, 13000) /\ RatioLE(w, h, 15000)
           \/ RatioGE(w, h, 9000) /\ RatioLE(w, h, 11000)
    THEN "photo"
  ELSE IF RatioGT(w, h, 5000) /\ RatioLT(w, h, 20000)
    THEN "possible_document"
  ELSE "unknown"

(***************************************************************************)
(* classifyImageType (the classification label; its confidence field is    *)
(* never read by verifyDocument).                                          *)
(***************************************************************************)
classifyImageType(w, h, type) ==
  IF (HasDeed(type) \/ HasCert(type))
        /\ RatioGE(w, h, 6000) /\ RatioLE(w, h, 8000)
    THEN "formal_document"
  ELSE IF HasIdProof(type) /\ RatioGE(w, h, 14000) /\ RatioLE(w, h, 17000)
    THEN "id_card"
  ELSE IF HasPhoto(type)
        /\ \/ RatioGE(w, h, 13000) /\ RatioLE(w, h, 15000)
           \/ RatioGE(w, h, 9000) /\ RatioLE(w, h, 11000)
    THEN "photo"
  ELSE IF RatioGT(w, h, 5000) /\ RatioLT(w, h, 20000)
    THEN "possible_document"
  ELSE "unknown"

\* variant: a formal type matches the label formal_document only
classificationMatchScoreFormalOnly(type, label) ==
  IF HasPhoto(type) /\ label = "photo" THEN 90
  ELSE IF (HasDeed(type) \/ HasCert(type)) /\ label = "formal_document" THEN 90
  ELSE IF HasIdProof(type) /\ label = "id_card" THEN 90
  ELSE IF label = "possible_document" THEN 70
  ELSE 40

\* variant: the label possible_document scores 0.9 for every type
classificationMatchScorePossibleNine(type, label) ==
  IF HasPhoto(type) /\ label = "photo" THEN 90
  ELSE IF (HasDeed(type) \/ HasCert(type))
            /\ label \in {"formal_document", "possible_document"} THEN 90
  ELSE IF HasIdProof(type) /\ label = "id_card" THEN 90
  ELSE IF label = "possible_document" THEN 90
  ELSE 40

\* the classification-match score and the warning it pushes
classificationMatchScore(type, label) ==
  IF HasPhoto(type) /\ label = "photo" THEN 90
  ELSE IF (HasDeed(type) \/ HasCert(type))
            /\ label \in {"formal_document", "possible_document"} THEN 90
  ELSE IF HasIdProof(type) /\ label = "id_card" THEN 90
  ELSE IF label = "possible_document" THEN 70
  ELSE 40

matchWarnings(type, label) ==
  IF classificationMatchScore(type, label) = 40
    THEN <<"Image does not appear to match the expected document type">>
    ELSE <<>>

\* variant: the 30 KB bound is inclusive
analyzeImageQualityInclusive30(info) ==
  IF info.threw THEN 50
  ELSE IF ~info.exists \/ info.size = 0 THEN 0
  ELSE IF info.size <= 30 * 1024 THEN 10
  ELSE IF info.size < 100 * 1024 THEN 40
  ELSE IF info.size > 5000 * 1024 THEN 95
  ELSE 85

\* variant: the large-file bound is 500 KB
analyzeImageQualityLarge500(info) ==
  IF info.threw THEN 50
  ELSE IF ~info.exists \/ info.size = 0 THEN 0
  ELSE IF info.size < 30 * 1024 THEN 10
  ELSE IF info.size < 100 * 1024 THEN 40
  ELSE IF info.size > 500 * 1024 THEN 95
  ELSE 85

(***************************************************************************)
(* analyzeImageQuality.  info is what FileSystem.getInfoAsync gave: the    *)
(* record [threw, exists, size], threw when the promise rejected.          *)
(***************************************************************************)
analyzeImageQuality(info) ==
  IF info.threw THEN 50
  ELSE IF ~info.exists \/ info.size = 0 THEN 0
  ELSE IF info.size < 30 * 1024 THEN 10
  ELSE IF info.size < 100 * 1024 THEN 40
  ELSE IF info.size > 5000 * 1024 THEN 95
  ELSE 85

(***************************************************************************)
(* The pieces of verifyDocument.                                           *)
(***************************************************************************)
\* the result object a call starts with
InitialResult(type) ==
  [ isDocument |-> FALSE, confidence |-> 0, warnings |-> <<>>,
    metadata |-> [documentType |-> type] ]

\* the result object the catch block returns
CatchResult(type) ==
  [ isDocument |-> FALSE, confidence |-> 0,
    warnings |-> <<"Failed to verify document due to an error">>,
    metadata |-> [documentType |-> type] ]

\* variant: the size check uses the 30 KB threshold of the quality step
sizeWarningsAt30(size) ==
  IF size < 30 * 1024 THEN <<"Image file size is suspiciously small">>
  ELSE <<>>

\* variant: a file of exactly 50 KB is still warned about
sizeWarningsInclusive50(size) ==
  IF size <= 50 * 1024 THEN <<"Image file size is suspiciously small">>
  ELSE <<>>

\* the warning of the size check
sizeWarnings(size) ==
  IF size < 50 * 1024 THEN <<"Image file size is suspiciously small">>
  ELSE <<>>

\* variant: every factor is weighted 0.3
confidenceScoreEqualWeights(aspect, resolution, match, quality) ==
  aspect * 3 + resolution * 3 + match * 3 + quality * 3

\* variant: the weights of resolution and match are exchanged
confidenceScoreSwappedWeights(aspect, resolution, match, quality) ==
  aspect * 3 + resolution * 2 + match * 3 + quality * 2

\* the weighted sum, in thousandths
confidenceScore(aspect, resolution, match, quality) ==
  aspect * 3 + resolution * 3 + match * 2 + quality * 2

\* parseFloat(x.toFixed(2)) of x thousandths, in hundredths
toFixed2(x) == (x + 5) \div 10

\* variant: the threshold is exclusive
isDocumentExclusive(confidence) == confidence > 80

\* the threshold test on the rounded confidence
isDocument(confidence) == confidence >= 80

\* variant: the final warning is pushed whatever the decision
finalWarningsAlways(accepted, type) ==
  << "This may not be a valid " \o type \o
     " document. Please upload a clear, high-quality image of the entire document." >>


finalWarnings(accepted, type) ==
  IF accepted THEN <<>>
  ELSE << "This may not be a valid " \o type \o
          " document. Please upload a clear, high-quality image of the entire document." >>

resolutionString(w, h) == ToString(w) \o "x" \o ToString(h)

(***************************************************************************)
(* State.  A call of verifyDocument is a coroutine that suspends at its    *)
(* three awaits; Calls are the invocations that can be in flight.          *)
(***************************************************************************)
Calls == {1, 2}

VARIABLES
  pc,       \* pc[c]: where call c is: "idle", "getInfo1", "getDims",
            \*        "getInfo2", "returned" or "threw"
  docType,  \* docType[c]: expectedDocumentType of call c
  img,      \* img[c]: the file behind imageUri of call c
  result,   \* result[c]: the result object of call c
  locals,   \* locals[c]: the local variables of call c computed so far
  io,       \* io[c]: the reads call c has awaited and how each settled
  ref,      \* at most one earlier call the caller remembers: its declared
            \* type, file, reads and result
  ui,       \* the DocumentUpload component: its document id, its state
            \* (image, verificationStatus, verificationResult), the open
            \* alerts, and per call the pickImage invocation waiting on it
  parent,   \* the uploadedDocs entry of LandRegister for the document, and
            \* the onPress calls LandRegister has received
  log       \* what the user did so far: the number of verifyDocument calls
            \* for each pick, the images uploaded anyway, the images retried

vars == <<pc, docType, img, result, locals, io, ref, ui, parent, log>>

\* the variables of the upload screen
screen == <<ui, parent, log>>

\* the files a caller can hand over: missing, undecodable, or an image
Images ==
  { [exists |-> FALSE, size |-> 0, decodable |-> FALSE, width |-> 0, height |-> 0] }
  \cup { [exists |-> TRUE, size |-> s, decodable |-> FALSE, width |-> 0, height |-> 0] :
          s \in Sizes }
  \cup { [exists |-> TRUE, size |-> s, decodable |-> TRUE, width |-> w, height |-> h] :
          s \in Sizes, w \in Dims, h \in Dims }

NoImage == [exists |-> FALSE, size |-> 0, decodable |-> FALSE, width |-> 0, height |-> 0]

\* the component as it is mounted for a document: useState, lines 41-43
Mounted(doc) ==
  [ doc |-> doc, image |-> 0, verificationStatus |-> "unverified",
    verificationResult |-> <<>>, alerts |-> {},
    phase |-> [c \in Calls |-> "none"],
    selectedImage |-> [c \in Calls |-> 0] ]

Init ==
  /\ pc = [c \in Calls |-> "idle"]
  /\ docType = [c \in Calls |-> "document"]
  /\ img = [c \in Calls |-> NoImage]
  /\ result = [c \in Calls |-> InitialResult("document")]
  /\ locals = [c \in Calls |-> <<>>]
  /\ io = [c \in Calls |-> <<>>]
  /\ ref = <<>>
  /\ ui = Mounted("document")
  /\ parent = [ isUploaded |-> FALSE, imageUri |-> 0, verificationResult |-> <<>>,
                notified |-> <<>> ]
  /\ log = [verifyCalls |-> <<>>, overridden |-> {}, retried |-> {}]

\* variant: the warnings array lives outside the function and is reused
CallReusesWarnings(c, type, image) ==
  /\ pc[c] \in {"idle", "returned"}
  /\ pc' = [pc EXCEPT ![c] = "getInfo1"]
  /\ docType' = [docType EXCEPT ![c] = type]
  /\ img' = [img EXCEPT ![c] = image]
  /\ result' = [result EXCEPT ![c] =
                  [InitialResult(type) EXCEPT !.warnings = result[c].warnings]]
  /\ locals' = [locals EXCEPT ![c] = <<>>]
  /\ io' = [io EXCEPT ![c] = <<>>]

\* variant: the result object is one module-level object that every call resets
CallSharedResult(c, type, image) ==
  /\ pc[c] \in {"idle", "returned"}
  /\ pc' = [pc EXCEPT ![c] = "getInfo1"]
  /\ docType' = [docType EXCEPT ![c] = type]
  /\ img' = [img EXCEPT ![c] = image]
  /\ result' = [k \in Calls |-> InitialResult(type)]
  /\ locals' = [locals EXCEPT ![c] = <<>>]
  /\ io' = [io EXCEPT ![c] = <<>>]

\* verifyDocument(imageUri, expectedDocumentType) is called: lines 108-120
Call(c, type, image) ==
  /\ pc[c] \in {"idle", "returned"}
  /\ pc' = [pc EXCEPT ![c] = "getInfo1"]
  /\ docType' = [docType EXCEPT ![c] = type]
  /\ img' = [img EXCEPT ![c] = image]
  /\ result' = [result EXCEPT ![c] = InitialResult(type)]
  /\ locals' = [locals EXCEPT ![c] = <<>>]
  /\ io' = [io EXCEPT ![c] = <<>>]

\* variant: the catch block logs and rethrows
CatchRethrows(c) ==
  /\ pc' = [pc EXCEPT ![c] = "threw"]
  /\ UNCHANGED result

\* the catch block of verifyDocument
Catch(c) ==
  /\ pc' = [pc EXCEPT ![c] = "returned"]
  /\ result' = [result EXCEPT ![c] = CatchResult(docType[c])]

\* how a getInfoAsync on the file settles
infoOutcome(threw, image) ==
  IF threw THEN "getInfoAsync:threw"
  ELSE IF ~image.exists THEN "getInfoAsync:missing"
  ELSE "getInfoAsync:ok"

\* variant: the warning is pushed but the function does not return
ResourceMissingContinues(c) ==
  /\ result' = [result EXCEPT ![c].warnings =
                  Append(@, "Image file does not exist")]
  /\ pc' = [pc EXCEPT ![c] = "getDims"]

\* the early return for a file that does not exist: lines 121-124
ResourceMissing(c) ==
  /\ result' = [result EXCEPT ![c].warnings =
                  Append(@, "Image file does not exist")]
  /\ pc' = [pc EXCEPT ![c] = "returned"]

\* the first getInfoAsync settles: lines 120-135
GetInfo1(c, threw) ==
  /\ pc[c] = "getInfo1"
  /\ io' = [io EXCEPT ![c] = Append(@, infoOutcome(threw, img[c]))]
  /\ UNCHANGED <<docType, img>>
  /\ IF threw
       THEN Catch(c) /\ UNCHANGED locals
     ELSE IF ~img[c].exists
       THEN ResourceMissing(c) /\ UNCHANGED locals
     ELSE /\ locals' = [locals EXCEPT ![c] = @ @@ ("fileSizeKB" :> <<img[c].size, 1024>>)]
          /\ result' = [result EXCEPT
                 ![c].metadata = @ @@ ("fileSize" :> <<img[c].size, 1024>>),
                 ![c].warnings = @ \o sizeWarnings(img[c].size)]
          /\ pc' = [pc EXCEPT ![c] = "getDims"]

\* getImageDimensions: null when manipulateAsync rejects
getImageDimensions(image) ==
  IF image.exists /\ image.decodable
    THEN <<image.width, image.height>>
    ELSE <<>>

\* the early return for undecodable dimensions: lines 136-139
DimensionFailure(c) ==
  /\ result' = [result EXCEPT ![c].warnings =
                  Append(@, "Failed to analyze image dimensions")]
  /\ pc' = [pc EXCEPT ![c] = "returned"]

\* getImageDimensions settles: lines 135-205
GetDims(c) ==
  /\ pc[c] = "getDims"
  /\ io' = [io EXCEPT ![c] = Append(@,
              IF getImageDimensions(img[c]) = <<>>
                THEN "manipulateAsync:threw" ELSE "manipulateAsync:ok")]
  /\ UNCHANGED <<docType, img>>
  /\ LET imageData == getImageDimensions(img[c])
     IN IF imageData = <<>>
          THEN DimensionFailure(c) /\ UNCHANGED locals
        ELSE LET w == imageData[1]
                 h == imageData[2]
                 label == classifyImageType(w, h, docType[c])
             IN /\ locals' = [locals EXCEPT ![c] = @ @@
                      [ width |-> w, height |-> h,
                        aspectRatioScore |-> aspectRatioScore(docType[c], w, h),
                        resolutionScore |-> resolutionScore(w, h),
                        imageClassification |-> label ]]
                /\ result' = [result EXCEPT
                      ![c].metadata = @ @@
                         [ aspectRatio |-> <<w, h>>,
                           resolution |-> resolutionString(w, h),
                           imageClassification |-> label ],
                      ![c].warnings = @ \o resolutionWarnings(w, h)]
                /\ pc' = [pc EXCEPT ![c] = "getInfo2"]

\* variant: the quality step is handed the size read at the start of the call
qualityInfoFirstReading(c, threw) ==
  [threw |-> threw, exists |-> img[c].exists, size |-> locals[c].fileSizeKB[1]]

\* what the getInfoAsync of analyzeImageQuality gives: the file as it is now
qualityInfo(c, threw) ==
  [threw |-> threw, exists |-> img[c].exists, size |-> img[c].size]

\* the getInfoAsync of analyzeImageQuality settles: lines 205-241
GetInfo2(c, threw) ==
  /\ pc[c] = "getInfo2"
  /\ io' = [io EXCEPT ![c] = Append(@, infoOutcome(threw, img[c]))]
  /\ UNCHANGED <<docType, img>>
  /\ LET info == qualityInfo(c, threw)
         quality == analyzeImageQuality(info)
         match == classificationMatchScore(docType[c], locals[c].imageClassification)
         sum == confidenceScore(locals[c].aspectRatioScore,
                                locals[c].resolutionScore, match, quality)
         confidence == toFixed2(sum)
     IN /\ locals' = [locals EXCEPT ![c] = @ @@
              [ imageQualityScore |-> quality,
                classificationMatchScore |-> match,
                confidenceScore |-> sum ]]
        /\ result' = [result EXCEPT
              ![c].confidence = confidence,
              ![c].isDocument = isDocument(confidence),
              ![c].warnings = @ \o matchWarnings(docType[c], locals[c].imageClassification)
                                \o finalWarnings(isDocument(confidence), docType[c])]
        /\ pc' = [pc EXCEPT ![c] = "returned"]

\* the file is deleted while a call on it is suspended
FileRemoved(c) ==
  /\ pc[c] \in {"getDims", "getInfo2"}
  /\ img[c].exists
  /\ img' = [img EXCEPT ![c].exists = FALSE]
  /\ UNCHANGED <<pc, docType, result, locals, io>>

\* the file is rewritten with another size while a call on it is suspended
FileResized(c, size) ==
  /\ pc[c] \in {"getDims", "getInfo2"}
  /\ img[c].exists
  /\ size # img[c].size
  /\ img' = [img EXCEPT ![c].size = size]
  /\ UNCHANGED <<pc, docType, result, locals, io>>

\* one call of verifyDocument on any file with any declared type
AnyCall ==
  /\ pc[1] = "idle"
  /\ \E t \in DocTypes, i \in Images : Call(1, t, i)
  /\ UNCHANGED <<ref, screen>>

Next ==
  \/ AnyCall
  \/ (\E threw \in BOOLEAN : GetInfo1(1, threw)) /\ UNCHANGED <<ref, screen>>
  \/ GetDims(1) /\ UNCHANGED <<ref, screen>>
  \/ (\E threw \in BOOLEAN : GetInfo2(1, threw)) /\ UNCHANGED <<ref, screen>>
  \/ FileRemoved(1) /\ UNCHANGED <<ref, screen>>

Spec == Init /\ [][Next]_vars

(***************************************************************************)
(* A caller that makes one call after the other, on a few types and files, *)
(* and that remembers one of the results it got.                           *)
(***************************************************************************)
RepeatTypes == {"titleDeed", "photo", "document"}

RepeatImages ==
  { i \in Images : /\ i.size \in {1, 614400}
                   /\ i.width \in {0, 2000}
                   /\ i.height \in {0, 2828} }

\* what the caller knows of the call that has just returned
Finished(c) ==
  [ docType |-> docType[c], size |-> img[c].size, width |-> img[c].width,
    height |-> img[c].height, io |-> io[c], result |-> result[c] ]

FirstCall ==
  /\ pc[1] = "idle"
  /\ \E t \in RepeatTypes, i \in RepeatImages : Call(1, t, i)
  /\ UNCHANGED <<ref, screen>>

NextCall ==
  /\ pc[1] = "returned"
  /\ \E t \in RepeatTypes, i \in RepeatImages : Call(1, t, i)
  /\ \/ UNCHANGED ref
     \/ ref = <<>> /\ ref' = <<Finished(1)>>
  /\ UNCHANGED screen

NextRepeat ==
  \/ FirstCall
  \/ NextCall
  \/ (\E threw \in BOOLEAN : GetInfo1(1, threw)) /\ UNCHANGED <<ref, screen>>
  \/ GetDims(1) /\ UNCHANGED <<ref, screen>>
  \/ (\E threw \in BOOLEAN : GetInfo2(1, threw)) /\ UNCHANGED <<ref, screen>>
  \/ FileRemoved(1) /\ UNCHANGED <<ref, screen>>

SpecRepeat == Init /\ [][NextRepeat]_vars

(***************************************************************************)
(* One call on a file that can be rewritten or deleted while the call is   *)
(* suspended.                                                              *)
(***************************************************************************)
CallOnChangingFile ==
  /\ pc[1] = "idle"
  /\ \E t \in RepeatTypes, i \in Images :
        /\ i.width \in {0, 2000} /\ i.height \in {0, 2828}
        /\ Call(1, t, i)
  /\ UNCHANGED <<ref, screen>>

NextChanging ==
  \/ CallOnChangingFile
  \/ (\E threw \in BOOLEAN : GetInfo1(1, threw)) /\ UNCHANGED <<ref, screen>>
  \/ GetDims(1) /\ UNCHANGED <<ref, screen>>
  \/ (\E threw \in BOOLEAN : GetInfo2(1, threw)) /\ UNCHANGED <<ref, screen>>
  \/ FileRemoved(1) /\ UNCHANGED <<ref, screen>>
  \/ (\E s \in Sizes : FileResized(1, s)) /\ UNCHANGED <<ref, screen>>

SpecChanging == Init /\ [][NextChanging]_vars

(***************************************************************************)
(* The upload screen: one DocumentUpload component, mounted by             *)
(* LandRegister with onPress and without onToggle, for one document.  An   *)
(* image uri is the number of the pick that chose it, 0 is no uri.  The    *)
(* catch block of pickImage (lines 108-132) has no action: verifyDocument  *)
(* catches everything itself and never throws.                             *)
(***************************************************************************)
UploadTypes == {"titleDeed", "document"}

UploadImages ==
  { i \in Images : /\ i.exists
                   /\ i.decodable
                   /\ <<i.width, i.height, i.size>> \in
                        { <<2000, 2828, 614400>>, <<500, 500, 1>> } }

InitUpload ==
  /\ pc = [c \in Calls |-> "idle"]
  /\ docType = [c \in Calls |-> "document"]
  /\ img = [c \in Calls |-> NoImage]
  /\ result = [c \in Calls |-> InitialResult("document")]
  /\ locals = [c \in Calls |-> <<>>]
  /\ io = [c \in Calls |-> <<>>]
  /\ ref = <<>>
  /\ \E t \in UploadTypes : ui = Mounted(t)
  /\ parent = [ isUploaded |-> FALSE, imageUri |-> 0, verificationResult |-> <<>>,
                notified |-> <<>> ]
  /\ log = [verifyCalls |-> <<>>, overridden |-> {}, retried |-> {}]

\* handleDocumentToggle(docId, imageUri, verificationResult) of LandRegister,
\* reached through the onPress prop; its first argument isUploaded is dropped
handleDocumentToggle(selected, imageUri, verificationResult) ==
  parent' = [ isUploaded |-> ~parent.isUploaded,
              imageUri |-> IF imageUri # 0 THEN imageUri ELSE parent.imageUri,
              verificationResult |-> verificationResult,
              notified |-> Append(parent.notified,
                             [ selected |-> selected, imageUri |-> imageUri,
                               verificationResult |-> verificationResult ]) ]

\* handlePress with isUploaded false, and pickImage up to its await of
\* verifyDocument: the user chooses a file in the picker
PickImage(c, image) ==
  /\ ~parent.isUploaded
  /\ ui.alerts = {}
  /\ ui.phase[c] \in {"none", "done"}
  /\ Len(log.verifyCalls) < MaxPicks
  /\ LET selectedImage == Len(log.verifyCalls) + 1
     IN  /\ ui' = [ui EXCEPT !.image = selectedImage,
                             !.verificationStatus = "verifying",
                             !.phase[c] = "awaiting",
                             !.selectedImage[c] = selectedImage]
         /\ log' = [log EXCEPT !.verifyCalls = Append(@, 1)]
  /\ Call(c, ui.doc, image)
  /\ UNCHANGED parent

\* variant: the result is passed on whatever isDocument says
ResumeNotifiesRejected(c) ==
  /\ ui.phase[c] = "awaiting"
  /\ pc[c] = "returned"
  /\ ui' = [ui EXCEPT !.verificationResult = <<result[c]>>,
                      !.verificationStatus =
                         IF result[c].isDocument THEN "verified" ELSE "rejected",
                      !.phase[c] = "done"]
  /\ handleDocumentToggle(TRUE, ui.selectedImage[c], <<result[c]>>)
  /\ UNCHANGED <<log, pc, docType, img, result, locals, io>>

\* pickImage after its await of verifyDocument: lines 75-107
Resume(c) ==
  /\ ui.phase[c] = "awaiting"
  /\ pc[c] = "returned"
  /\ IF result[c].isDocument
       THEN /\ ui' = [ui EXCEPT !.verificationResult = <<result[c]>>,
                                !.verificationStatus = "verified",
                                !.phase[c] = "done"]
            /\ handleDocumentToggle(TRUE, ui.selectedImage[c], <<result[c]>>)
            /\ UNCHANGED log
       ELSE /\ ui' = [ui EXCEPT !.verificationResult = <<result[c]>>,
                                !.verificationStatus = "rejected",
                                !.alerts = @ \cup {c},
                                !.phase[c] = "alert"]
            /\ UNCHANGED <<parent, log>>
  /\ UNCHANGED <<pc, docType, img, result, locals, io>>

\* the button 'Upload Anyway' of the warning alert: lines 90-96
UploadAnyway(c) ==
  /\ c \in ui.alerts
  /\ ui' = [ui EXCEPT !.alerts = @ \ {c}, !.phase[c] = "done"]
  /\ handleDocumentToggle(TRUE, ui.selectedImage[c], <<result[c]>>)
  /\ log' = [log EXCEPT !.overridden = @ \cup {ui.selectedImage[c]}]
  /\ UNCHANGED <<pc, docType, img, result, locals, io>>

\* the button 'Try Again' of the warning alert: lines 97-104
TryAgain(c) ==
  /\ c \in ui.alerts
  /\ ui' = [ui EXCEPT !.image = 0, !.verificationStatus = "unverified",
                      !.alerts = @ \ {c}, !.phase[c] = "done"]
  /\ log' = [log EXCEPT !.retried = @ \cup {ui.selectedImage[c]}]
  /\ UNCHANGED <<parent, pc, docType, img, result, locals, io>>

\* handlePress with isUploaded true and no onToggle: lines 141-144
RemoveUpload ==
  /\ parent.isUploaded
  /\ ui.alerts = {}
  /\ handleDocumentToggle(FALSE, 0, <<>>)
  /\ ui' = [ui EXCEPT !.image = 0]
  /\ UNCHANGED <<log, pc, docType, img, result, locals, io>>

NextUpload ==
  \/ (\E c \in Calls, i \in UploadImages : PickImage(c, i)) /\ UNCHANGED ref
  \/ (\E c \in Calls, threw \in BOOLEAN : GetInfo1(c, threw))
       /\ UNCHANGED <<ref, screen>>
  \/ (\E c \in Calls : GetDims(c)) /\ UNCHANGED <<ref, screen>>
  \/ (\E c \in Calls, threw \in BOOLEAN : GetInfo2(c, threw))
       /\ UNCHANGED <<ref, screen>>
  \/ (\E c \in Calls : Resume(c)) /\ UNCHANGED ref
  \/ (\E c \in Calls : UploadAnyway(c)) /\ UNCHANGED ref
  \/ (\E c \in Calls : TryAgain(c)) /\ UNCHANGED ref
  \/ RemoveUpload /\ UNCHANGED ref

SpecUpload == InitUpload /\ [][NextUpload]_vars

(***************************************************************************)
(* Two calls of verifyDocument on two files, started in any order and      *)
(* interleaved at their awaits.                                            *)
(***************************************************************************)
PairTypes == {"titleDeed", "photo"}

PairImages ==
  { i \in Images :
      \/ ~i.exists
      \/ ~i.decodable /\ i.size = 1
      \/ /\ i.decodable
         /\ <<i.width, i.height, i.size>> \in
              { <<2000, 2828, 614400>>, <<1500, 1000, 51199>> } }

CallOfPair ==
  \E c \in Calls :
    /\ pc[c] = "idle"
    /\ \E t \in PairTypes, i \in PairImages : Call(c, t, i)
    /\ UNCHANGED <<ref, screen>>

NextPair ==
  \/ CallOfPair
  \/ (\E c \in Calls, threw \in BOOLEAN : GetInfo1(c, threw))
       /\ UNCHANGED <<ref, screen>>
  \/ (\E c \in Calls : GetDims(c)) /\ UNCHANGED <<ref, screen>>
  \/ (\E c \in Calls, threw \in BOOLEAN : GetInfo2(c, threw))
       /\ UNCHANGED <<ref, screen>>
  \/ (\E c \in Calls : FileRemoved(c)) /\ UNCHANGED <<ref, screen>>

SpecPair == Init /\ [][NextPair]_vars


TypeOK ==
  \A c \in Calls :
    /\ pc[c] \in {"idle", "getInfo1", "getDims", "getInfo2", "returned", "threw"}
    /\ docType[c] \in DocTypes
    /\ result[c].confidence \in 0..1000

(***************************************************************************)
(* Properties of the results of verifyDocument.                            *)
(***************************************************************************)
Returned(c) == pc[c] = "returned"

\* the call went through all of the scoring
Scored(c) == Returned(c) /\ Len(io[c]) = 3

\* C1: every returned result has isDocument true exactly when its
\* confidence is at least 0.80, the value 0.80 included.
C1_ThresholdInclusive ==
  \A c \in Calls :
    Returned(c) => (result[c].isDocument <=> result[c].confidence >= 80)

C1_Witness ==
  Scored(1) /\ result[1].confidence = 80 /\ result[1].isDocument

\* C2: the confidence of every returned result lies between 0.00 and 1.00,
\* whatever the type, the size, the dimensions and the failures of the reads.
C2_ConfidenceInRange ==
  \A c \in Calls :
    Returned(c) => result[c].confidence >= 0 /\ result[c].confidence <= 100

C2_Witness ==
  /\ Scored(1) /\ result[1].confidence >= 90
  /\ locals[1].aspectRatioScore = 90 /\ locals[1].imageQualityScore = 95

\* C3: no call ends by throwing, and a call whose first read or dimension
\* decode failed returns isDocument false with confidence 0.
C3_Total ==
  \A c \in Calls :
    /\ pc[c] # "threw"
    /\ ( /\ Returned(c)
          /\ \/ io[c][1] # "getInfoAsync:ok"
             \/ io[c][2] = "manipulateAsync:threw" )
       => ~result[c].isDocument /\ result[c].confidence = 0

C3_Witness ==
  Returned(1) /\ io[1] = <<"getInfoAsync:threw">> /\ result[1].confidence = 0

\* C4: when the first read reports that the file does not exist, the call
\* returns isDocument false, confidence 0 and exactly one warning, for every
\* declared type, having read no dimensions and computed no score.
C4_MissingResource ==
  \A c \in Calls :
    (Returned(c) /\ io[c][1] = "getInfoAsync:missing") =>
       /\ ~result[c].isDocument
       /\ result[c].confidence = 0
       /\ Len(result[c].warnings) = 1
       /\ Len(io[c]) = 1
       /\ DOMAIN locals[c] = {}

C4_Witness ==
  /\ Returned(1) /\ io[1][1] = "getInfoAsync:missing"
  /\ docType[1] = "landPhoto"

\* the size was read and the dimensions could not be decoded
DimensionsUndecoded(c) ==
  /\ Returned(c)
  /\ Len(io[c]) = 2
  /\ io[c][1] = "getInfoAsync:ok" /\ io[c][2] = "manipulateAsync:threw"

\* C5 as stated: after a failed dimension decode the result has isDocument
\* false, confidence 0 and exactly one warning, for every file size, and no
\* score was computed.
C5_Original ==
  \A c \in Calls :
    DimensionsUndecoded(c) =>
       /\ ~result[c].isDocument
       /\ result[c].confidence = 0
       /\ Len(result[c].warnings) = 1
       /\ DOMAIN locals[c] = {"fileSizeKB"}

\* C5 as amended: after a failed dimension decode the result has isDocument
\* false, confidence 0 and no score was computed; its warnings are the
\* dimension warning alone when the size is 50 KB or more, and the size
\* warning followed by the dimension warning when the size is below 50 KB.
C5_DimensionFailure ==
  \A c \in Calls :
    DimensionsUndecoded(c) =>
       /\ ~result[c].isDocument
       /\ result[c].confidence = 0
       /\ DOMAIN locals[c] = {"fileSizeKB"}
       /\ result[c].warnings =
            IF locals[c].fileSizeKB[1] < 51200
              THEN << "Image file size is suspiciously small",
                      "Failed to analyze image dimensions" >>
              ELSE << "Failed to analyze image dimensions" >>

C5_Witness ==
  /\ DimensionsUndecoded(1)
  /\ locals[1].fileSizeKB[1] = 30720
  /\ Len(result[1].warnings) = 2

\* the remembered call and the returned call c had the same declared type,
\* the same file size, width and height, and their reads settled alike
SameCall(r, c) ==
  /\ r.docType = docType[c]
  /\ r.size = img[c].size /\ r.width = img[c].width /\ r.height = img[c].height
  /\ r.io = io[c]

\* C6: a call returns the result that an earlier call with the same declared
\* type on an image of the same size, width and height returned, whatever
\* calls were made before or in between.
C6_Deterministic ==
  \A i \in 1..Len(ref) :
    (Returned(1) /\ SameCall(ref[i], 1)) => result[1] = ref[i].result

C6_Witness ==
  /\ Len(ref) = 1 /\ Scored(1) /\ SameCall(ref[1], 1)
  /\ Len(result[1].warnings) = 3

\* the place of a warning in the order of the checks, 0 for another warning
Rank(warning, type) ==
  IF warning = "Image file size is suspiciously small" THEN 1
  ELSE IF warning \in { "Image resolution is lower than recommended",
                        "Image resolution is too low for reliable document verification" }
    THEN 2
  ELSE IF warning = "Image does not appear to match the expected document type" THEN 3
  ELSE IF warning = "This may not be a valid " \o type \o
          " document. Please upload a clear, high-quality image of the entire document."
    THEN 4
  ELSE 0

\* C7: in every returned result the size warning, the resolution warning, the
\* mismatch warning and the final rejection warning come in this order, each
\* at most once and with at most one resolution warning.
C7_WarningOrder ==
  \A c \in Calls :
    Returned(c) =>
      \A i, j \in 1..Len(result[c].warnings) :
        LET ri == Rank(result[c].warnings[i], docType[c])
            rj == Rank(result[c].warnings[j], docType[c])
        IN (i < j /\ ri > 0 /\ rj > 0) => ri < rj

C7_Witness ==
  /\ Scored(1) /\ Len(result[1].warnings) = 4
  /\ \A i \in 1..4 : Rank(result[1].warnings[i], docType[1]) = i

\* a 2000 x 2828 image of 600 KB declared as titleDeed, all reads succeeding
TitleDeedExample(c) ==
  /\ Scored(c)
  /\ docType[c] = "titleDeed"
  /\ img[c] = [exists |-> TRUE, size |-> 614400, decodable |-> TRUE,
                width |-> 2000, height |-> 2828]
  /\ io[c] = <<"getInfoAsync:ok", "manipulateAsync:ok", "getInfoAsync:ok">>

\* C8: for titleDeed with a 2000 x 2828 image of 600 KB the scores are aspect
\* 0.9, resolution 0.9, match 0.9 with label formal_document and quality
\* 0.85, the confidence is 0.89, isDocument is true and there is no warning.
C8_TitleDeedExample ==
  \A c \in Calls :
    TitleDeedExample(c) =>
      /\ locals[c].aspectRatioScore = 90
      /\ locals[c].resolutionScore = 90
      /\ locals[c].classificationMatchScore = 90
      /\ result[c].metadata.imageClassification = "formal_document"
      /\ locals[c].imageQualityScore = 85
      /\ result[c].confidence = 89
      /\ result[c].isDocument
      /\ result[c].warnings = <<>>

C8_Witness == TitleDeedExample(1) /\ result[1].confidence = 89

\* the quality step read the size of the file
QualityRead(c) == Scored(c) /\ io[c][3] = "getInfoAsync:ok"

C10_LandPhotoAspect ==
  \A c \in Calls :
    ( /\ "aspectRatioScore" \in DOMAIN locals[c]
      /\ docType[c] \in {"landPhoto", "landmarkPhotos"} )
    => /\ locals[c].aspectRatioScore = 80
       /\ locals[c].aspectRatioScore * 3 = 240

C10_Witness ==
  /\ Scored(1) /\ docType[1] = "landmarkPhotos"
  /\ locals[1].width = 1500 /\ locals[1].height = 500
  /\ locals[1].aspectRatioScore = 80

\* C12: whenever scoring completes, the confidence is 0.30 aspect + 0.30
\* resolution + 0.20 match + 0.20 quality rounded to two decimals, and
\* isDocument is decided on the rounded value.
C12_WeightedSum ==
  \A c \in Calls :
    Scored(c) =>
      LET sum == 30 * locals[c].aspectRatioScore
                 + 30 * locals[c].resolutionScore
                 + 20 * locals[c].classificationMatchScore
                 + 20 * locals[c].imageQualityScore
      IN /\ 100 * result[c].confidence - 50 <= sum
         /\ sum < 100 * result[c].confidence + 50
         /\ result[c].isDocument <=> (result[c].confidence >= 80)

C12_Witness ==
  /\ Scored(1)
  /\ locals[1].aspectRatioScore = 70 /\ locals[1].resolutionScore = 30
  /\ locals[1].classificationMatchScore = 90 /\ locals[1].imageQualityScore = 85
  /\ result[1].confidence = 65

\* the dimensions were decoded and the aspect-ratio score computed
Measured(c) == "aspectRatioScore" \in DOMAIN locals[c]

\* the score of the distance of w / h to expected/10000 in exact arithmetic
DistanceScore(w, h, expected) ==
  LET n == Abs(10000 * w - expected * h)
  IN IF h = 0 THEN 10
     ELSE IF n <= 1000 * h THEN 90
     ELSE IF n <= 3000 * h THEN 70
     ELSE IF n <= 5000 * h THEN 50
     ELSE IF n <= 10000 * h THEN 30
     ELSE 10

\* the declared types whose name contains "Deed" or "Cert"
FormalTypes ==
  {"titleDeed", "encumbranceCert", "mutationCert", "landUseCert", "partitionDeed"}

\* C13: for every declared type whose name contains "Deed" or "Cert" the
\* aspect-ratio score is the score of the distance of width / height to
\* 0.7071, not the score of the generic check.
C13_FormalAspect ==
  \A c \in Calls :
    (Measured(c) /\ docType[c] \in FormalTypes) =>
      locals[c].aspectRatioScore
        = calculateAspectRatioScore(locals[c].width, locals[c].height, 7071)

\* the expected ratio, in 1/10000, of the types the switch gives one
ExpectedRatio(type) ==
  IF type \in {"titleDeed", "encumbranceCert", "mutationCert", "landUseCert"} THEN 7071
  ELSE IF type = "idProof" THEN 15860
  ELSE 15000

\* C14: for a type with an expected ratio the aspect-ratio score is that of
\* d = |width / height - expected| with inclusive upper bounds: d <= 0.1
\* gives 0.9, d <= 0.3 gives 0.7, d <= 0.5 gives 0.5, d <= 1.0 gives 0.3,
\* otherwise 0.1.
C14_DistanceBands ==
  \A c \in Calls :
    ( /\ Measured(c)
      /\ docType[c] \in {"titleDeed", "encumbranceCert", "mutationCert",
                         "landUseCert", "idProof", "photo", "selfie"} )
    => locals[c].aspectRatioScore
         = DistanceScore(locals[c].width, locals[c].height, ExpectedRatio(docType[c]))

\* the declared types that are neither formal, ID-proof, photo or selfie nor
\* land photo types
GenericTypes ==
  {"taxReceipts", "landMap", "affidavit", "poa", "courtOrder", "noc",
   "gpsTaggedSelfie", "document"}

\* C15: for the other declared types the aspect-ratio score is 0.7 when
\* 0.5 < width / height < 2.0, both bounds exclusive, and 0.3 otherwise.
C15_GenericAspect ==
  \A c \in Calls :
    (Measured(c) /\ docType[c] \in GenericTypes) =>
      LET w == locals[c].width
          h == locals[c].height
      IN locals[c].aspectRatioScore =
           IF h > 0 /\ 2 * w > h /\ w < 2 * h THEN 70 ELSE 30

C15_Witness ==
  /\ Scored(1) /\ docType[1] = "noc"
  /\ locals[1].width = 2000 /\ locals[1].height = 1000
  /\ locals[1].aspectRatioScore = 30

\* how often a warning occurs in the result of call c
Count(c, warning) ==
  Cardinality({ i \in 1..Len(result[c].warnings) : result[c].warnings[i] = warning })

\* C16: the resolution score is 0.9 without a resolution warning from
\* 1,000,000 pixels, 0.6 with the warning "lower than recommended" from
\* 500,000 pixels, and 0.3 with the warning "too low" below; there is exactly
\* one resolution warning exactly when the pixel count is below 1,000,000.
C16_Resolution ==
  \A c \in Calls :
    Measured(c) =>
      LET pixelCount == locals[c].width * locals[c].height
          lower == Count(c, "Image resolution is lower than recommended")
          tooLow == Count(c,
              "Image resolution is too low for reliable document verification")
      IN /\ pixelCount >= 1000000 =>
              locals[c].resolutionScore = 90 /\ lower = 0 /\ tooLow = 0
         /\ (pixelCount >= 500000 /\ pixelCount < 1000000) =>
              locals[c].resolutionScore = 60 /\ lower = 1 /\ tooLow = 0
         /\ pixelCount < 500000 =>
              locals[c].resolutionScore = 30 /\ lower = 0 /\ tooLow = 1
         /\ (lower + tooLow = 1) <=> (pixelCount < 1000000)

C16_Witness ==
  /\ Scored(1)
  /\ locals[1].width = 1000 /\ locals[1].height = 500
  /\ locals[1].resolutionScore = 60
  /\ Count(1, "Image resolution is lower than recommended") = 1

\* the label that the rules give, in their order, from width / height and
\* the declared type alone
ExpectedLabel(type, w, h) ==
  IF type \in FormalTypes /\ h > 0 /\ 10 * w >= 6 * h /\ 10 * w <= 8 * h
    THEN "formal_document"
  ELSE IF type = "idProof" /\ h > 0 /\ 10 * w >= 14 * h /\ 10 * w <= 17 * h
    THEN "id_card"
  ELSE IF type = "photo" /\ h > 0
          /\ \/ 10 * w >= 13 * h /\ 10 * w <= 15 * h
             \/ 10 * w >= 9 * h /\ 10 * w <= 11 * h
    THEN "photo"
  ELSE IF h > 0 /\ 2 * w > h /\ w < 2 * h
    THEN "possible_document"
  ELSE "unknown"

\* C17: the label in metadata.imageClassification is the one the rules give
\* from width / height and the declared type, whatever the file size and the
\* scores.
C17_Label ==
  \A c \in Calls :
    "imageClassification" \in DOMAIN result[c].metadata =>
      result[c].metadata.imageClassification
        = ExpectedLabel(docType[c], locals[c].width, locals[c].height)

C17_Witness ==
  /\ Scored(1) /\ docType[1] = "titleDeed"
  /\ locals[1].width = 1000 /\ locals[1].height = 1250
  /\ result[1].metadata.imageClassification = "formal_document"

\* C18: the match score is 0.9 for a photo type labelled photo, a formal type
\* labelled formal_document or possible_document, and an idProof type
\* labelled id_card; else 0.7 for the label possible_document; else 0.4.  The
\* mismatch warning is present exactly when the match score is 0.4.
C18_MatchScore ==
  \A c \in Calls :
    Scored(c) =>
      LET label == result[c].metadata.imageClassification
          type == docType[c]
      IN /\ locals[c].classificationMatchScore =
              IF \/ type = "photo" /\ label = "photo"
                 \/ type \in FormalTypes
                      /\ label \in {"formal_document", "possible_document"}
                 \/ type = "idProof" /\ label = "id_card"
                THEN 90
              ELSE IF label = "possible_document" THEN 70
              ELSE 40
         /\ (Count(c, "Image does not appear to match the expected document type") = 1)
              <=> (locals[c].classificationMatchScore = 40)
         /\ Count(c, "Image does not appear to match the expected document type") <= 1

C18_Witness ==
  /\ Scored(1) /\ docType[1] = "partitionDeed"
  /\ result[1].metadata.imageClassification = "possible_document"
  /\ locals[1].classificationMatchScore = 90

\* the quality step's read failed: it threw, or reported the file missing or
\* without a size
QualityReadFailed(c) ==
  /\ Scored(c)
  /\ \/ io[c][3] \in {"getInfoAsync:threw", "getInfoAsync:missing"}
     \/ img[c].size = 0

\* C19: when the read of the quality step fails, by throwing or by reporting
\* the file missing or without a size, the quality score is 0.5 and a normal
\* result is returned.
C19_NeutralOnFailure ==
  \A c \in Calls :
    QualityReadFailed(c) =>
      /\ locals[c].imageQualityScore = 50
      /\ "confidenceScore" \in DOMAIN locals[c]

\* the sizes the two reads of a completed call saw
FirstReading(c) == locals[c].fileSizeKB[1]
SecondReading(c) == img[c].size

\* the quality score of a size in bytes that was read
QualityOfSize(size) ==
  IF size = 0 THEN 0
  ELSE IF size < 30720 THEN 10
  ELSE IF size < 102400 THEN 40
  ELSE IF size > 5120000 THEN 95
  ELSE 85

\* C20 as stated: the size warning, metadata.fileSize and the quality score
\* of a call all reflect the size read at the start of the call, also when the
\* size of the file changes before the quality step.
C20_Original ==
  \A c \in Calls :
    QualityRead(c) =>
      /\ result[c].metadata.fileSize = <<FirstReading(c), 1024>>
      /\ (Count(c, "Image file size is suspiciously small") = 1)
            <=> (FirstReading(c) < 51200)
      /\ locals[c].imageQualityScore = QualityOfSize(FirstReading(c))

\* C20 as amended: the size warning and metadata.fileSize reflect the size
\* read at the start of the call and the quality score reflects the size read
\* again in the quality step; the three reflect one value when the size of the
\* file did not change in between.
C20_TwoReadings ==
  \A c \in Calls :
    QualityRead(c) =>
      /\ result[c].metadata.fileSize = <<FirstReading(c), 1024>>
      /\ (Count(c, "Image file size is suspiciously small") = 1)
            <=> (FirstReading(c) < 51200)
      /\ locals[c].imageQualityScore = QualityOfSize(SecondReading(c))

C20_Witness ==
  /\ QualityRead(1)
  /\ FirstReading(1) = 1 /\ SecondReading(1) = 614400
  /\ Count(1, "Image file size is suspiciously small") = 1
  /\ locals[1].imageQualityScore = 85
(***************************************************************************)
(* Properties of the upload screen.                                        *)
(***************************************************************************)
\* the picks made so far
Picked == 1..Len(log.verifyCalls)

\* the acceptance notifications the parent has received
Accepted == { k \in 1..Len(parent.notified) : parent.notified[k].selected }

\* C11: for each picked image verifyDocument is called once; the parent is
\* told an image is accepted, with its uri and its result, only if that
\* result has isDocument true or the user chose 'Upload Anyway' for it; and
\* 'Try Again' sends no notification and clears the image.
C11_UploadWorkflow ==
  /\ [](/\ \A u \in Picked : log.verifyCalls[u] = 1
        /\ \A k \in Accepted :
             LET n == parent.notified[k]
             IN  /\ n.imageUri \in Picked
                 /\ Len(n.verificationResult) = 1
                 /\ \/ n.verificationResult[1].isDocument
                    \/ n.imageUri \in log.overridden
                 /\ n.imageUri \notin log.retried)
  /\ [][(\E c \in Calls : TryAgain(c)) =>
          /\ parent' = parent
          /\ ui'.image = 0]_vars

\* all three ways out have been taken: an image verified and accepted, an
\* image rejected and uploaded anyway, an image rejected and tried again
C11_Witness ==
  /\ \E k \in Accepted : parent.notified[k].verificationResult[1].isDocument
  /\ \E k \in Accepted : /\ ~parent.notified[k].verificationResult[1].isDocument
                         /\ parent.notified[k].imageUri \in log.overridden
  /\ log.retried # {}
  /\ ui.image = 0

(***************************************************************************)
(* Consequences of the scoring rules.                                      *)
(***************************************************************************)
\* the first read of the call found the file
FirstReadOk(c) == Len(io[c]) >= 1 /\ io[c][1] = "getInfoAsync:ok"

\* C21: a size below 50 KB appends the warning "suspiciously small" and a
\* size of 50 KB or more does not; the warning does not reject: a file of 30
\* to under 50 KB with aspect, resolution and match scores 0.9 gets
\* confidence 0.80 and isDocument true and still carries the warning.
C21_SmallSizeWarning ==
  \A c \in Calls :
    /\ (Returned(c) /\ FirstReadOk(c)) =>
         Count(c, "Image file size is suspiciously small")
           = (IF FirstReading(c) < 51200 THEN 1 ELSE 0)
    /\ ( /\ QualityRead(c)
         /\ FirstReading(c) >= 30720 /\ FirstReading(c) < 51200
         /\ locals[c].aspectRatioScore = 90
         /\ locals[c].resolutionScore = 90
         /\ locals[c].classificationMatchScore = 90 ) =>
         /\ result[c].confidence = 80
         /\ result[c].isDocument
         /\ Count(c, "Image file size is suspiciously small") = 1

C21_Witness ==
  /\ QualityRead(1)
  /\ FirstReading(1) = 51199
  /\ locals[1].aspectRatioScore = 90 /\ locals[1].resolutionScore = 90
  /\ locals[1].classificationMatchScore = 90
  /\ result[1].isDocument
  /\ result[1].warnings = <<"Image file size is suspiciously small">>

\* the final warning of a call
FinalWarning(c) ==
  "This may not be a valid " \o docType[c] \o
  " document. Please upload a clear, high-quality image of the entire document."

\* the call returned early, from the missing file or the undecodable dimensions
Aborted(c) ==
  /\ Returned(c)
  /\ \/ io[c] = <<"getInfoAsync:missing">>
     \/ io[c] = <<"getInfoAsync:ok", "manipulateAsync:threw">>

\* C22: whenever scoring completes, the final warning "This may not be a
\* valid <type> document. ..." is the last warning exactly when isDocument is
\* false; an accepted result does not contain it, and the two abort results
\* do not contain it.
C22_FinalWarning ==
  \A c \in Calls :
    /\ Scored(c) =>
         LET w == result[c].warnings
         IN  /\ (Len(w) > 0 /\ w[Len(w)] = FinalWarning(c)) <=> ~result[c].isDocument
             /\ result[c].isDocument => Count(c, FinalWarning(c)) = 0
             /\ ~result[c].isDocument => Count(c, FinalWarning(c)) = 1
    /\ Aborted(c) => Count(c, FinalWarning(c)) = 0

C22_Witness ==
  /\ Scored(1) /\ ~result[1].isDocument
  /\ Len(result[1].warnings) = 4
  /\ result[1].warnings[4] = FinalWarning(1)
  /\ docType[1] = "encumbranceCert"

\* what verifyDocument(image, type) returns when nothing else runs, as a
\* function of its arguments and of how its three awaits settled
verifyDocumentAlone(type, image, outcomes) ==
  LET started == InitialResult(type)
      sized == [started EXCEPT
                  !.metadata = @ @@ ("fileSize" :> <<image.size, 1024>>),
                  !.warnings = sizeWarnings(image.size)]
      w == image.width
      h == image.height
      label == classifyImageType(w, h, type)
      quality == analyzeImageQuality(
                   [ threw |-> outcomes[3] = "getInfoAsync:threw",
                     exists |-> outcomes[3] = "getInfoAsync:ok",
                     size |-> image.size ])
      confidence == toFixed2(confidenceScore(aspectRatioScore(type, w, h),
                       resolutionScore(w, h),
                       classificationMatchScore(type, label), quality))
  IN IF outcomes[1] = "getInfoAsync:threw" THEN CatchResult(type)
     ELSE IF outcomes[1] = "getInfoAsync:missing"
       THEN [started EXCEPT !.warnings = <<"Image file does not exist">>]
     ELSE IF outcomes[2] = "manipulateAsync:threw"
       THEN [sized EXCEPT !.warnings = Append(@, "Failed to analyze image dimensions")]
     ELSE [ isDocument |-> isDocument(confidence),
            confidence |-> confidence,
            warnings |-> sized.warnings \o resolutionWarnings(w, h)
                           \o matchWarnings(type, label)
                           \o finalWarnings(isDocument(confidence), type),
            metadata |-> sized.metadata @@
                           [ aspectRatio |-> <<w, h>>,
                             resolution |-> resolutionString(w, h),
                             imageClassification |-> label ] ]

\* C23: two calls on independent images, interleaved in any order at their
\* awaits, each return the result they return when run alone, and a call
\* that is suspended or has returned keeps its result while the other runs.
C23_Independent ==
  /\ [](\A c \in Calls :
          Returned(c) => result[c] = verifyDocumentAlone(docType[c], img[c], io[c]))
  /\ [][\A c \in Calls :
          pc'[c] = pc[c] => /\ result'[c] = result[c]
                            /\ locals'[c] = locals[c]
                            /\ io'[c] = io[c]]_vars

\* both calls went through the scoring, on different files, with different
\* decisions
C23_Witness ==
  /\ Scored(1) /\ Scored(2)
  /\ img[1].size # img[2].size
  /\ result[1].isDocument /\ ~result[2].isDocument
  /\ docType[1] = "titleDeed" /\ docType[2] = "photo"

\* C24: no accepted result carries the mismatch warning: for every declared
\* type, size, width and height, a result whose warnings contain "Image does
\* not appear to match the expected document type" has isDocument false, and
\* the aspect-ratio score 0.9 never comes together with the match score 0.4.
C24_MismatchRejected ==
  \A c \in Calls :
    /\ (Returned(c) /\
        Count(c, "Image does not appear to match the expected document type") > 0)
          => ~result[c].isDocument
    /\ Scored(c) =>
         /\ locals[c].classificationMatchScore = 40
              <=> Count(c, "Image does not appear to match the expected document type") = 1
         /\ ~(locals[c].aspectRatioScore = 90 /\ locals[c].classificationMatchScore = 40)

\* the highest confidence a mismatched image reaches, 0.78
C24_Witness ==
  /\ Scored(1)
  /\ docType[1] = "landPhoto"
  /\ locals[1].classificationMatchScore = 40
  /\ locals[1].aspectRatioScore = 80 /\ locals[1].resolutionScore = 90
  /\ locals[1].imageQualityScore = 95
  /\ result[1].confidence = 78 /\ ~result[1].isDocument

\* C25: an image with fewer than 500,000 pixels has the resolution score 0.3
\* and the warning "too low", and is never accepted: for every declared
\* type, file size and aspect ratio its confidence is at most 0.73.
C25_LowResolutionRejected ==
  \A c \in Calls :
    (Scored(c) /\ locals[c].width * locals[c].height < 500000) =>
       /\ locals[c].resolutionScore = 30
       /\ Count(c, "Image resolution is too low for reliable document verification") = 1
       /\ result[c].confidence <= 73
       /\ ~result[c].isDocument

\* the highest confidence such an image reaches
C25_Witness ==
  /\ Scored(1)
  /\ locals[1].width * locals[1].height < 500000
  /\ locals[1].aspectRatioScore = 90
  /\ locals[1].classificationMatchScore = 90
  /\ locals[1].imageQualityScore = 95
  /\ result[1].confidence = 73

\* the types scored by the default case of the switch whose identifier holds
\* none of the substrings the classifier looks for
PlainTypes ==
  { t \in DocTypes :
      /\ t \notin { "titleDeed", "encumbranceCert", "mutationCert", "landUseCert",
                    "idProof", "photo", "selfie", "landPhoto", "landmarkPhotos" }
      /\ ~HasDeed(t) /\ ~HasCert(t) /\ ~HasPhoto(t) /\ ~HasIdProof(t) }

\* C26: for taxReceipts, landMap, affidavit, poa, courtOrder, noc,
\* gpsTaggedSelfie and the fallback id 'document', isDocument is true only if
\* the file size exceeds 5000 KB: with a size of 5000 KB or less the
\* confidence is at most 0.79 whatever the dimensions.
C26_PlainTypesNeedLargeFile ==
  /\ PlainTypes = { "taxReceipts", "landMap", "affidavit", "poa", "courtOrder",
                    "noc", "gpsTaggedSelfie", "document" }
  /\ \A c \in Calls :
       (Returned(c) /\ docType[c] \in PlainTypes) =>
          /\ result[c].isDocument => img[c].size > 5120000
          /\ img[c].size <= 5120000 => result[c].confidence <= 79

\* both sides of 5000 KB: 0.79 at exactly 5000 KB
C26_Witness ==
  /\ Scored(1) /\ docType[1] = "gpsTaggedSelfie"
  /\ img[1].size = 5120000
  /\ result[1].confidence = 79 /\ ~result[1].isDocument

\* C27: whenever scoring completes the confidence is at least 0.20, so a
\* returned confidence of 0 occurs only in a failure result (missing file,
\* undecodable dimensions, caught exception), and every result with
\* confidence 0 has no resolution, aspectRatio or imageClassification in its
\* metadata.
C27_ConfidenceFloor ==
  \A c \in Calls :
    /\ Scored(c) => result[c].confidence >= 20
    /\ (Returned(c) /\ result[c].confidence = 0) =>
         /\ \/ Aborted(c)
            \/ io[c][Len(io[c])] = "getInfoAsync:threw" /\ result[c] = CatchResult(docType[c])
         /\ DOMAIN result[c].metadata
              \cap {"resolution", "aspectRatio", "imageClassification"} = {}
         /\ ~result[c].isDocument

\* the lowest confidence of a scored image: every score at its minimum
C27_Witness ==
  /\ Scored(1)
  /\ locals[1].aspectRatioScore = 10 /\ locals[1].resolutionScore = 30
  /\ locals[1].classificationMatchScore = 40 /\ locals[1].imageQualityScore = 0
  /\ result[1].confidence = 20

\* the image of the call is near-square: 0.9 <= width / height <= 1.1
NearSquare(c) ==
  /\ Scored(c)
  /\ RatioGE(locals[c].width, locals[c].height, 9000)
  /\ RatioLE(locals[c].width, locals[c].height, 11000)

\* C28: for the declared type 'photo' a near-square image is labelled
\* 'photo' with match score 0.9 and without the mismatch warning, and yet is
\* never accepted: its aspect-ratio score against 1.5 is at most 0.5 and its
\* confidence at most 0.79, for every file size and resolution.
C28_SquarePhotoRejected ==
  \A c \in Calls :
    (NearSquare(c) /\ docType[c] = "photo") =>
       /\ result[c].metadata.imageClassification = "photo"
       /\ locals[c].classificationMatchScore = 90
       /\ Count(c, "Image does not appear to match the expected document type") = 0
       /\ locals[c].aspectRatioScore <= 50
       /\ result[c].confidence <= 79
       /\ ~result[c].isDocument

\* the best near-square photo: 0.79
C28_Witness ==
  /\ NearSquare(1) /\ docType[1] = "photo"
  /\ locals[1].aspectRatioScore = 50 /\ locals[1].resolutionScore = 90
  /\ locals[1].imageQualityScore = 95
  /\ result[1].confidence = 79

\* no pickImage is waiting for verifyDocument
NoneInFlight == \A c \in Calls : ui.phase[c] # "awaiting"

\* the calls that verified the image the component shows
CallsOfSelected == { c \in Calls : ui.phase[c] # "none" /\ ui.selectedImage[c] = ui.image }

\* C29: whenever no verification is in flight and an image is selected, the
\* stored verificationStatus and verificationResult are those of the
\* selected image: verified if and only if its result has isDocument true,
\* rejected otherwise, also when a second image is picked while the first is
\* still being verified.
C29_StatusOfSelectedImage ==
  (NoneInFlight /\ ui.image # 0) =>
     \E c \in CallsOfSelected :
        /\ ui.verificationResult = <<result[c]>>
        /\ ui.verificationStatus =
             (IF result[c].isDocument THEN "verified" ELSE "rejected")

\* the last onPress call LandRegister received
LastNotification == parent.notified[Len(parent.notified)]

\* C30: after every acceptance notification onPress(true, imageUri,
\* verificationResult) the uploadedDocs entry of the document has isUploaded
\* true together with that imageUri and verificationResult, and after every
\* removal notification onPress(false) it has isUploaded false, after any
\* sequence of picks, overrides and removals.
C30_EntryFollowsNotification ==
  Len(parent.notified) > 0 =>
     IF LastNotification.selected
       THEN /\ parent.isUploaded
            /\ parent.imageUri = LastNotification.imageUri
            /\ parent.verificationResult = LastNotification.verificationResult
       ELSE ~parent.isUploaded

====
